---- MODULE Spec2Model ----
(***************************************************************************)
(* reportlabx: the multi-pass build of BaseDocTemplate (doctemplate.py)    *)
(* and the numbered Heading flowable (flowables.py), over reportlab's      *)
(* process-wide Sequencer.                                                 *)
(***************************************************************************)
EXTENDS Integers, Sequences, FiniteSets, TLC

\* ------------------------------------------------------------------ bounds
MaxLevel == 2       \* heading levels 0..MaxLevel
MaxDocs == 2        \* document templates of the process
MaxItems == 2       \* flowables of the content list in a controller run
MaxHeadings == 6    \* headings constructed in a numbering run
MaxCeiling == 2     \* max_passes is drawn from 0..MaxCeiling
MaxBuilds == 2      \* multiBuild calls of the process
MaxEdits == 1       \* deferred edits queued by one layout pass
MaxPlaced == 3      \* flowables of the content list in a placement run
MaxChain == 1       \* follow-up edits an applied edit leads to, one by one
MaxQueued == 2      \* deferred edits queued by one layout pass in a run of edits
MaxIndexing == 1    \* indexing flowables of the content list in a run of edits

Levels == 0..MaxLevel
Docs == 1..MaxDocs

\* self.total_pages: int = None
None == -1

\* ------------------------------------------------------- the Sequencer
\* reportlab.lib.sequencer as Heading.__init__ drives it: named counters
\* h0..hN (Absent until _getCounter creates them at base 0) and the chain
\* relation parent -> child.
Absent == -1

Sequencer == [val |-> [i \in Levels |-> Absent], chain |-> {}]

\* sequencer._getCounter(f"h{i}"): the counter, created at 0 when absent.
getCounter(s, i) == IF s.val[i] = Absent THEN [s EXCEPT !.val[i] = 0] ELSE s

\* sequencer.chain(f"h{i-1}", f"h{i}"): incrementing the parent resets the child.
chain(s, p, c) ==
    [getCounter(getCounter(s, p), c) EXCEPT !.chain = @ \cup {<<p, c>>}]

\* for i in range(0, level + 1): _getCounter(h{i}); if i > 0: chain(h{i-1}, h{i})
RECURSIVE chainUpTo(_, _, _)
chainUpTo(s, i, level) ==
    IF i > level THEN s
    ELSE chainUpTo(IF i > 0 THEN chain(getCounter(s, i), i - 1, i)
                            ELSE getCounter(s, i),
                   i + 1, level)

\* '%(h{i}+)s': the counter is incremented and the counters chained to it
\* are reset to their base (_Counter.next calls reset() on each counter of
\* its own chain list; reset() sets that one counter's value and goes no
\* further down).
nextMutSkipReset(s, i) == [s EXCEPT !.val[i] = @ + 1]

next(s, i) ==
    [s EXCEPT !.val = [j \in Levels |->
        IF j = i THEN s.val[i] + 1
        ELSE IF <<i, j>> \in s.chain THEN 0
        ELSE s.val[j]]]

\* '%(h{i})s': the current value, read without changing it.
this(s, i) == s.val[i]

\* template = '%(h0)s.%(h1)s. ... .%(hL+)s' % sequencer: the label's numbers
\* (the "." separators are implied by the sequence).
template(s, level) ==
    [i \in 1..(level + 1) |->
        IF i - 1 = level THEN this(next(s, level), level) ELSE this(s, i - 1)]

\* hashlib.sha256(...).hexdigest(), taken as injective on its input.
sha256(x) == <<"sha256", x>>

\* The markup that is hashed (flowables.py:162,166): the <seq template=.../>
\* tag of a numbered heading carries the template, which depends on the level
\* only, followed by the caller's text; an unnumbered heading's is its text.
markup(level, numbered, name, label) ==
    [tmpl |-> IF numbered THEN <<level>> ELSE <<>>, name |-> name]

\* Heading.__init__(text, level, numbered, add_to_toc, add_to_outline)
\* against the sequencer s: the flowable constructed.
Heading(s, name, level, numbered, add_to_toc, add_to_outline) ==
    LET s1 == chainUpTo(s, 0, level)
        label == IF numbered THEN template(s1, level) ELSE <<>>
    IN [kind |-> "Heading",
        level |-> level,
        numbered |-> numbered,
        add_to_toc |-> add_to_toc,
        add_to_outline |-> add_to_outline,
        name |-> name,
        label |-> label,
        bookmark_name |-> sha256(markup(level, numbered, name, label))]

\* The sequencer after Heading.__init__.
HeadingSeq(s, level, numbered) ==
    LET s1 == chainUpTo(s, 0, level)
    IN IF numbered THEN next(s1, level) ELSE s1

\* Paragraph.getPlainText(): the rendered text, label first.
getPlainText(h) == [label |-> h.label, name |-> h.name]

\* ------------------------------------------------------------- flowables
PageBreak == [kind |-> "PageBreak"]
\* reportlab's TableOfContents: an indexing flowable, satisfied when a pass
\* brought the entries the previous pass brought.
TableOfContents == [kind |-> "TOC", entries |-> <<>>, lastEntries |-> <<>>]
\* An indexing flowable whose isSatisfied() never holds.
Never == [kind |-> "Never"]
\* An indexing flowable whose isSatisfied() may answer either way in any pass.
Flaky == [kind |-> "Flaky"]

\* thing.isIndexing()
isIndexing(f) == f.kind \in {"TOC", "Never", "Flaky"}

\* A flowable whose attribute handle_afterFlowable is not callable (a value).
Marked == [kind |-> "Marked"]

\* hasattr(flowable, "handle_afterFlowable")
hasattr(f) == f.kind \in {"Heading", "Marked"}

\* callable(getattr(flowable, "handle_afterFlowable"))
callable(f) == f.kind = "Heading"

\* hasattr(flowable, "handle_afterFlowable") and callable(method)
hasHandler(f) == hasattr(f) /\ callable(f)

\* ----------------------------------------------------------------- state
VARIABLES
    seq,                \* the process-wide sequencer (getSequencer())
    story,              \* story[d]: the content list the caller keeps for d
    total_pages,        \* total_pages[d]: self.total_pages
    page,               \* page[d]: self.page, the page the last pass ended on
    indexingFlowables,  \* indexingFlowables[d]: self._indexingFlowables, as
                        \* positions of the story
    doSave,             \* doSave[d]: self._doSave
    cur,                \* the document whose multiBuild is running, 0 if none
    pc,                 \* where that multiBuild is
    max_passes,         \* its max_passes argument
    passes,             \* its local passes
    mbe,                \* its local mbe, the deferred edits
    notified,           \* the TOCEntry notifications of its last layout pass
    outline,            \* the outline entries of its last layout pass
    saves,              \* the passes of this call in which canv.save() ran
    results,            \* results[d]: the outcome of the last finished
                        \* multiBuild call on d, if any
    calls,              \* the multiBuild calls made so far
    queued,             \* what the recording edits queued since the last
                        \* layout pass began recorded, in the order of their
                        \* mbe.append
    applied,            \* what the recording edits applied since then recorded,
                        \* in the order of their application
    events              \* the calls multiBuild made in its last turn of the
                        \* loop, in order

vars == <<seq, story, total_pages, page, indexingFlowables, doSave, cur, pc,
          max_passes, passes, mbe, notified, outline, saves, results, calls,
          queued, applied, events>>

\* The state of the process before any flowable or build: the sequencer
\* module's lazily created global, and BaseDocTemplate.__init__ for every d.
Init ==
    /\ seq = Sequencer
    /\ story = [d \in Docs |-> <<>>]
    /\ total_pages = [d \in Docs |-> None]
    /\ page = [d \in Docs |-> 0]
    /\ indexingFlowables = [d \in Docs |-> <<>>]
    /\ doSave = [d \in Docs |-> 1]
    /\ cur = 0
    /\ pc = "idle"
    /\ max_passes = 0
    /\ passes = 0
    /\ mbe = <<>>
    /\ notified = <<>>
    /\ outline = <<>>
    /\ saves = <<>>
    /\ results = [d \in Docs |-> <<>>]
    /\ calls = 0
    /\ queued = <<>>
    /\ applied = <<>>
    /\ events = <<>>

RECURSIVE Constructed(_)
Constructed(d) == IF d = 0 THEN 0 ELSE Len(story[d]) + Constructed(d - 1)

\* ------------------------------------------------- the caller's content
\* The caller constructs a Heading and appends it to the content list of d.
NewHeading(d, name, level, numbered, add_to_toc, add_to_outline, bound) ==
    /\ cur = 0
    /\ Constructed(MaxDocs) < bound
    /\ story' = [story EXCEPT ![d] =
          Append(@, Heading(seq, name, level, numbered, add_to_toc, add_to_outline))]
    /\ seq' = HeadingSeq(seq, level, numbered)
    /\ UNCHANGED <<total_pages, page, indexingFlowables, doSave, cur, pc,
                   max_passes, passes, mbe, notified, outline, saves, results,
                   calls, queued, applied, events>>

\* The caller appends another flowable to the content list of d.
NewFlowable(d, f, bound) ==
    /\ cur = 0
    /\ Constructed(MaxDocs) < bound
    /\ story' = [story EXCEPT ![d] = Append(@, f)]
    /\ UNCHANGED <<seq, total_pages, page, indexingFlowables, doSave, cur, pc,
                   max_passes, passes, mbe, notified, outline, saves, results,
                   calls, queued, applied, events>>

\* --------------------------------------------------------- the layout pass
\* The layout engine, deterministic: a flowable lands on the page after the
\* page breaks before it.
RECURSIVE breaksBefore(_, _)
breaksBefore(st, k) ==
    IF k <= 1 THEN 0
    ELSE breaksBefore(st, k - 1) + (IF st[k - 1].kind = "PageBreak" THEN 1 ELSE 0)

pageOf(st, k) == 1 + breaksBefore(st, k)

\* self.page when build() returns.
lastPage(st) == IF st = <<>> THEN 0 ELSE 1 + breaksBefore(st, Len(st) + 1)

\* Heading.handle_afterFlowable: entry = (level, text, doc.page, bookmark_name)
entryMutNoPage(h, p) ==
    [level |-> h.level, text |-> getPlainText(h), page |-> 1,
     key |-> h.bookmark_name]

entry(h, p) ==
    [level |-> h.level, text |-> getPlainText(h), page |-> p,
     key |-> h.bookmark_name]

\* key = sha256(bookmark_name + str(doc.page)); addOutlineEntry(text, key, level)
outlineEntry(h, p) ==
    [text |-> getPlainText(h), key |-> sha256(<<h.bookmark_name, p>>),
     level |-> h.level]

\* The TOCEntry notifications of build(story[:]), in placement order:
\* afterFlowable calls the handler of every flowable that has one.
RECURSIVE tocOfPass(_, _)
tocOfPass(st, k) ==
    IF k > Len(st) THEN <<>>
    ELSE (IF hasHandler(st[k]) /\ st[k].add_to_toc
             THEN <<entry(st[k], pageOf(st, k))>> ELSE <<>>)
         \o tocOfPass(st, k + 1)

\* The outline entries of build(story[:]), in placement order.
RECURSIVE outlineOfPass(_, _)
outlineOfPass(st, k) ==
    IF k > Len(st) THEN <<>>
    ELSE (IF hasHandler(st[k]) /\ st[k].add_to_outline
             THEN <<outlineEntry(st[k], pageOf(st, k))>> ELSE <<>>)
         \o outlineOfPass(st, k + 1)

\* for fl in self._indexingFlowables: fl.<name>()
callsOn(name, idx) == [i \in 1..Len(idx) |-> [ev |-> name, item |-> idx[i]]]

\* afterFlowable: method(self) is called
calledMutHasattr(f) == hasattr(f)

called(f) == hasHandler(f)

\* self.build(tempStory): the layout engine places the flowables of the copy
\* from the first to the last and reports each to afterFlowable.
RECURSIVE placements(_, _)
placements(st, k) ==
    IF k > Len(st) THEN <<>>
    ELSE <<[ev |-> "afterFlowable", item |-> k]>>
         \o (IF called(st[k])
                THEN <<[ev |-> "handle_afterFlowable", item |-> k]>> ELSE <<>>)
         \o placements(st, k + 1)

\* tempStory = story[:]
copy(st) == st

\* The caller's list after self.build(tempStory): build takes every flowable
\* off the list it is given, which is the copy and not the caller's list st.
callersListMutConsumed(st) == <<>>

callersList(st) == st

\* The calls of one turn of the loop up to afterBuild (doctemplate.py:79-87).
turnMutAfterFirst(before, layout, after) == before \o after \o layout

turn(before, layout, after) == before \o layout \o after

eventsOfPass(st, idx) ==
    turn(callsOn("beforeBuild", idx), placements(copy(st), 1),
         callsOn("afterBuild", idx))

\* fl.beforeBuild(), then the notifications of the pass (doc.notify hands
\* each to every indexing flowable), for one flowable of the story.
afterPass(f, toc) ==
    IF f.kind = "TOC"
        THEN [f EXCEPT !.lastEntries = f.entries, !.entries = toc]
        ELSE f

\* fl.isSatisfied()
isSatisfied(f, flaky) ==
    CASE f.kind = "TOC" -> f.entries = f.lastEntries
      [] f.kind = "Never" -> FALSE
      [] f.kind = "Flaky" -> flaky
      [] OTHER -> TRUE

\* self._allSatisfied()
allSatisfied(d, flaky) ==
    \A i \in 1..Len(indexingFlowables[d]) :
        isSatisfied(story[d][indexingFlowables[d][i]], flaky)

\* for thing in story: if thing.isIndexing(): append
RECURSIVE scan(_, _)
scan(st, k) ==
    IF k > Len(st) THEN <<>>
    ELSE (IF isIndexing(st[k]) THEN <<k>> ELSE <<>>) \o scan(st, k + 1)

\* The deferred edits a layout pass may queue: none, or up to MaxEdits edits,
\* each of which, applied, either does nothing more or queues a follow-up
\* edit (which may do the same, MaxChain times at most).
Edit == [again : 0..MaxChain]

\* e[0](*e[1:]): an edit is any callable with its arguments. Besides the
\* edits above, whose callable leaves no trace, there are the edits a test of
\* the draining queues: the callable records its argument arg when it is
\* applied, and the argument of the follow-up edit it queues. A layout pass
\* queues up to n of them, with the arguments 1, 2, ... in turn.
records(e) == "arg" \in DOMAIN e

RECURSIVE RecordingSeqs(_)
RecordingSeqs(n) ==
    IF n = 0 THEN {<<>>}
    ELSE RecordingSeqs(n - 1) \cup
         {Append(q, [arg |-> n, again |-> a]) :
             q \in {x \in RecordingSeqs(n - 1) : Len(x) = n - 1},
             a \in 0..MaxChain}

\* The arguments of the recording edits of q, in order.
args(q) == LET r == SelectSeq(q, records) IN [i \in 1..Len(r) |-> r[i].arg]

\* The edit that an applied edit e queues (e.again > 0).
followUp(e) ==
    IF records(e) THEN [arg |-> e.arg + MaxQueued, again |-> e.again - 1]
                  ELSE [again |-> e.again - 1]

\* e = mbe.pop(0): the edit taken and the queue left.
popMutLast(q) == [e |-> q[Len(q)], rest |-> SubSeq(q, 1, Len(q) - 1)]

popMutDropRest(q) == [e |-> Head(q), rest |-> <<>>]

pop(q) == [e |-> Head(q), rest |-> Tail(q)]

RECURSIVE EditSeqs(_)
EditSeqs(n) ==
    IF n = 0 THEN {<<>>}
    ELSE EditSeqs(n - 1) \cup
         {Append(q, e) : q \in {x \in EditSeqs(n - 1) : Len(x) = n - 1}, e \in Edit}

\* ------------------------------------------------------------- multiBuild
\* multiBuild(story, max_passes) up to the loop: doctemplate.py:61-73.
doSaveAtStart == 0

multiBuild(d, mp) ==
    /\ cur = 0
    /\ calls < MaxBuilds
    /\ calls' = calls + 1
    /\ seq' = Sequencer
    /\ indexingFlowables' = [indexingFlowables EXCEPT ![d] = scan(story[d], 1)]
    /\ doSave' = [doSave EXCEPT ![d] = doSaveAtStart]
    /\ passes' = 0
    /\ mbe' = <<>>
    /\ cur' = d
    /\ max_passes' = mp
    /\ pc' = "pass"
    /\ notified' = <<>>
    /\ outline' = <<>>
    /\ saves' = <<>>
    /\ queued' = <<>>
    /\ applied' = <<>>
    /\ events' = <<>>
    /\ UNCHANGED <<story, total_pages, page, results>>

\* One turn of the loop up to afterBuild: doctemplate.py:75-87. build() ends
\* in _endBuild, which saves the canvas when _doSave is set.
Pass(q) ==
    /\ pc = "pass"
    /\ passes' = passes + 1
    /\ notified' = tocOfPass(story[cur], 1)
    /\ outline' = outlineOfPass(story[cur], 1)
    /\ story' = [story EXCEPT ![cur] = callersList(
          [k \in 1..Len(@) |-> afterPass(@[k], tocOfPass(story[cur], 1))])]
    /\ page' = [page EXCEPT ![cur] = lastPage(story[cur])]
    /\ saves' = IF doSave[cur] = 1 THEN Append(saves, passes + 1) ELSE saves
    /\ mbe' = mbe \o q
    /\ queued' = args(q)
    /\ applied' = <<>>
    /\ events' = eventsOfPass(story[cur], indexingFlowables[cur])
    /\ pc' = "built"
    /\ UNCHANGED <<seq, total_pages, indexingFlowables, doSave, cur,
                   max_passes, results, calls>>

\* if happy and self.total_pages is not None
isDoneMutHappy(happy, tp) == happy

isDoneMutFixed(happy, tp) == tp # None

isDone(happy, tp) == happy /\ tp # None

\* if passes > max_passes
overCeilingMutGeq(p, mp) == p >= mp

overCeilingMutLate(p, mp) == p > mp + 1

overCeilingMutNever(p, mp) == FALSE

overCeiling(p, mp) == p > mp

\* "Index entries not resolved after %d passes" % max_passes
namedInError(p, mp) == mp

\* The rest of the turn: doctemplate.py:89-102, to the break (and so the
\* return of passes), the raise or the edits.
Check(flaky) ==
    /\ pc = "built"
    /\ LET happy == allSatisfied(cur, flaky) IN
       IF isDone(happy, total_pages[cur])
       THEN /\ doSave' = [doSave EXCEPT ![cur] = 0]
            /\ saves' = Append(saves, passes)
            /\ pc' = "done"
            /\ UNCHANGED total_pages
       ELSE /\ total_pages' = IF happy
                  THEN [total_pages EXCEPT ![cur] = page[cur]]
                  ELSE total_pages
            /\ pc' = IF overCeiling(passes, max_passes) THEN "failed"
                     ELSE IF mbe = <<>> THEN "pass" ELSE "edits"
            /\ UNCHANGED <<doSave, saves>>
    /\ events' = Append(events, [ev |-> "allSatisfied", item |-> 0])
    /\ UNCHANGED <<seq, story, page, indexingFlowables, cur, max_passes,
                   passes, mbe, notified, outline, results, calls, queued,
                   applied>>

\* What the caller of a finished multiBuild holds: the passes returned or
\* the IndexError with the count its message names, and the TOC entries of
\* the last pass over the content list (of len flowables).
outcomeOf(d) ==
    [outcome |-> IF pc = "done" THEN "return" ELSE "IndexError",
     value |-> IF pc = "done" THEN passes ELSE namedInError(passes, max_passes),
     toc |-> notified,
     len |-> Len(story[d])]

\* The call is over: multiBuild's locals are gone.
Returned ==
    /\ pc \in {"done", "failed"}
    /\ results' = [results EXCEPT ![cur] = <<outcomeOf(cur)>>]
    /\ cur' = 0
    /\ pc' = "idle"
    /\ max_passes' = 0
    /\ passes' = 0
    /\ mbe' = <<>>
    /\ notified' = <<>>
    /\ outline' = <<>>
    /\ saves' = <<>>
    /\ queued' = <<>>
    /\ applied' = <<>>
    /\ events' = <<>>
    /\ UNCHANGED <<seq, story, total_pages, page, indexingFlowables, doSave,
                   calls>>

\* while mbe: e = mbe.pop(0); e[0](*e[1:])    (doctemplate.py:105-107)
ApplyEdit ==
    /\ pc = "edits"
    /\ LET e == pop(mbe).e
           more == IF e.again > 0 THEN <<followUp(e)>> ELSE <<>>
           rest == pop(mbe).rest \o more
       IN /\ mbe' = rest
          /\ queued' = queued \o args(more)
          /\ applied' = applied \o args(<<e>>)
          /\ pc' = IF rest = <<>> THEN "pass" ELSE "edits"
    /\ UNCHANGED <<seq, story, total_pages, page, indexingFlowables, doSave,
                   cur, max_passes, passes, notified, outline, saves, results,
                   calls, events>>

\* ---------------------------------------------------------- specifications
\* The build controller: one document template whose content list holds
\* headings and indexing flowables, built with any ceiling, any
\* number of times, its layout passes queueing any deferred edits.
AddHeading == NewHeading(1, "Intro", 0, TRUE, TRUE, TRUE, MaxItems)

AddFlowable ==
    \E f \in {TableOfContents, Never, Flaky} :
        NewFlowable(1, f, MaxItems)

Build == \E mp \in 0..MaxCeiling : multiBuild(1, mp)

LayoutPass == \E q \in EditSeqs(MaxEdits) : Pass(q)

CheckPass == \E flaky \in BOOLEAN : Check(flaky)

Next ==
    \/ AddHeading \/ AddFlowable \/ Build
    \/ LayoutPass \/ CheckPass \/ ApplyEdit \/ Returned

Spec == Init /\ [][Next]_vars

\* Termination: the content list of one document is constructed and then
\* built, any number of times. The build steps run to completion: multiBuild
\* is sequential code, and each layout pass and each edit returns.
AddBefore ==
    /\ calls = 0
    /\ \/ NewHeading(1, "Intro", 0, TRUE, TRUE, TRUE, MaxItems)
       \/ \E f \in {TableOfContents, Never, Flaky} : NewFlowable(1, f, MaxItems)

NextFair ==
    \/ AddBefore \/ Build
    \/ LayoutPass \/ CheckPass \/ ApplyEdit \/ Returned

FairSpec ==
    /\ Init /\ [][NextFair]_vars
    /\ WF_vars(LayoutPass) /\ WF_vars(CheckPass) /\ WF_vars(ApplyEdit)

\* Numbering: numbered headings at any levels, constructed one after the
\* other on the sequencer the process starts with.
AddNumbered ==
    \E l \in Levels : NewHeading(1, "Intro", l, TRUE, TRUE, TRUE, MaxHeadings)

NextNumbering == AddNumbered

SpecNumbering == Init /\ [][NextNumbering]_vars

\* Several documents: numbered headings constructed for any of them and
\* multiBuild calls on any of them, in any order.
AddNumberedTo ==
    \E d \in Docs, l \in Levels :
        NewHeading(d, "Intro", l, TRUE, TRUE, TRUE, MaxItems)

BuildAny == \E d \in Docs : multiBuild(d, MaxCeiling)

PlainPass == Pass(<<>>)

NextDocs == AddNumberedTo \/ BuildAny \/ PlainPass \/ CheckPass \/ Returned

SpecDocs == Init /\ [][NextDocs]_vars

\* Placement: the content list of one document, headings of every kind
\* (numbered or not, in the TOC or not, in the outline or not) and page
\* breaks, is constructed and then built.
PlacedLevels == 0..1

AddAnyHeading ==
    /\ calls = 0
    /\ \E l \in PlacedLevels, numbered \in BOOLEAN,
          add_to_toc \in BOOLEAN, add_to_outline \in BOOLEAN :
           NewHeading(1, "Intro", l, numbered, add_to_toc, add_to_outline, MaxPlaced)

AddBreak == calls = 0 /\ NewFlowable(1, PageBreak, MaxPlaced)

BuildPlaced == calls = 0 /\ multiBuild(1, MaxCeiling)

NextPlace ==
    \/ AddAnyHeading \/ AddBreak \/ BuildPlaced
    \/ PlainPass \/ CheckPass \/ Returned

SpecPlace == Init /\ [][NextPlace]_vars

\* Deferred edits: a content list of indexing flowables is constructed and
\* then built, any number of times, with any ceiling; each layout pass queues
\* up to MaxQueued recording edits.
AddIndexing ==
    /\ calls = 0
    /\ \E f \in {TableOfContents, Flaky} : NewFlowable(1, f, MaxIndexing)

EditPass == \E q \in RecordingSeqs(MaxQueued) : Pass(q)

NextEdits ==
    \/ AddIndexing \/ Build
    \/ EditPass \/ CheckPass \/ ApplyEdit \/ Returned

SpecEdits == Init /\ [][NextEdits]_vars

\* Pages: the caller appends headings and page breaks to the content list of
\* one document and builds it, any number of times, before and after
\* appending.
AddPageBreak == NewFlowable(1, PageBreak, MaxItems)

NextPages ==
    \/ AddHeading \/ AddPageBreak \/ Build
    \/ PlainPass \/ CheckPass \/ Returned

SpecPages == Init /\ [][NextPages]_vars

\* The placement hook: a content list of headings, which have the hook, of
\* flowables without it (a page break, a table of contents) and of flowables
\* whose handle_afterFlowable is not callable, is constructed and then built.
AddHooked ==
    /\ calls = 0
    /\ \/ \E add_to_toc \in BOOLEAN, add_to_outline \in BOOLEAN :
            NewHeading(1, "Intro", 0, TRUE, add_to_toc, add_to_outline, MaxItems)
       \/ \E f \in {PageBreak, Marked, TableOfContents} :
            NewFlowable(1, f, MaxItems)

NextHooks == AddHooked \/ BuildPlaced \/ PlainPass \/ CheckPass \/ Returned

SpecHooks == Init /\ [][NextHooks]_vars

\* The loop: the caller appends headings and indexing flowables to the
\* content list of one document and builds it, any number of times, with any
\* ceiling, before and after appending; no deferred edit is queued.
NextLoop ==
    \/ AddHeading \/ AddFlowable \/ Build
    \/ PlainPass \/ CheckPass \/ Returned

SpecLoop == Init /\ [][NextLoop]_vars

\* ----------------------------------------------------------------- claims
Running == pc \in {"pass", "built", "edits"}
Finished == pc \in {"done", "failed"}

\* No multiBuild call on d has finished before the running one.
FirstCall(d) == results[d] = <<>>

HasKind(d, k) == \E i \in 1..Len(story[d]) : story[d][i].kind = k

\* C1: on a freshly constructed template, over a content list without
\* indexing flowables and with max_passes >= 1, multiBuild returns 2: the
\* first pass runs with total_pages unknown and fixes it, the second is the
\* last.
C1_NoIndexingTwoPasses ==
    (cur # 0 /\ FirstCall(cur) /\ indexingFlowables[cur] = <<>> /\ max_passes >= 1)
    => /\ pc # "failed"
       /\ passes <= 2
       /\ pc = "done" => passes = 2
       /\ (pc = "built" /\ passes = 1) => total_pages[cur] = None
       /\ passes = 2 => total_pages[cur] = page[cur]

C1_Witness ==
    /\ pc = "done" /\ FirstCall(cur) /\ indexingFlowables[cur] = <<>>
    /\ max_passes = 1 /\ passes = 2 /\ Len(story[cur]) = MaxItems

\* C2: with an indexing flowable that is never satisfied, multiBuild fails
\* after exactly max_passes + 1 passes, and the count the error names is that
\* number of passes.
C2_ErrorNamesPassesRun ==
    (cur # 0 /\ HasKind(cur, "Never"))
    => /\ pc # "done"
       /\ pc = "failed" =>
            /\ passes = max_passes + 1
            /\ namedInError(passes, max_passes) = passes

\* C3: two multiBuild calls on the same template over the same content list
\* (no flowable of which answers at random), both returning, bring the same
\* TOC entries and return the same number of passes.
C3_SecondBuildSame ==
    (/\ pc = "done"
     /\ results[cur] # <<>>
     /\ results[cur][1].outcome = "return"
     /\ results[cur][1].len = Len(story[cur])
     /\ ~HasKind(cur, "Flaky"))
    => /\ outcomeOf(cur).toc = results[cur][1].toc
       /\ outcomeOf(cur).value = results[cur][1].value

\* C4 as claimed: a multiBuild that returns has run at most max_passes passes.
C4_ReturnsWithinCeiling == pc = "done" => passes <= max_passes

\* C4, amended: the ceiling is tested only at the end of a pass that is not
\* the last one, so no further pass starts once passes > max_passes; a
\* multiBuild that returns has run at most max_passes + 1 passes, and one that
\* fails has run exactly max_passes + 1.
C4_CeilingPlusOne ==
    /\ pc \in {"pass", "edits"} => passes <= max_passes
    /\ pc \in {"built", "done"} => passes <= max_passes + 1
    /\ pc = "failed" => passes = max_passes + 1

C4_Witness == pc = "done" /\ passes = max_passes + 1 /\ max_passes >= 1

\* C5: the canvas is saved only by the pass that ends the build in Done, once,
\* with every indexing flowable satisfied and total_pages set; no pass of a
\* running or failed build saves.
C5_SaveOnlyOnDone ==
    /\ pc = "done" =>
          /\ saves = <<passes>>
          /\ total_pages[cur] # None
          /\ \E flaky \in BOOLEAN : allSatisfied(cur, flaky)
    /\ pc # "done" => saves = <<>>

C5_Witness ==
    /\ pc = "done" /\ saves = <<3>> /\ HasKind(cur, "TOC")

C5_WitnessFailed == pc = "failed" /\ passes = 3 /\ saves = <<>>

Levels6 == <<0, 1, 1, 2, 0, 1>>
Labels6 == <<(<<1>>), <<1, 1>>, <<1, 2>>, <<1, 2, 1>>, (<<2>>), <<2, 1>>>>

\* Numbered headings constructed on a fresh sequencer at levels
\* 0,1,1,2,0,1 are labelled 1, 1.1, 1.2, 1.2.1, 2, 2.1; constructing a heading
\* at level L leaves h0..h(L-1) as they are, puts their values in the label,
\* and increments hL alone.
C7_LabelsOfPrefix ==
    \A k \in 1..Len(story[1]) :
        (k <= 6 /\ \A i \in 1..k : story[1][i].level = Levels6[i])
        => story[1][k].label = Labels6[k]

C7_Step ==
    Len(story'[1]) = Len(story[1]) + 1 =>
        LET h == story'[1][Len(story'[1])]
            L == h.level
        IN /\ Len(h.label) = L + 1
           /\ \A i \in 0..(L - 1) :
                /\ seq'.val[i] = (IF seq.val[i] = Absent THEN 0 ELSE seq.val[i])
                /\ h.label[i + 1] = seq'.val[i]
           /\ seq'.val[L] = (IF seq.val[L] = Absent THEN 0 ELSE seq.val[L]) + 1
           /\ h.label[L + 1] = seq'.val[L]
           /\ \A i \in Levels : i > L => seq'.val[i] <= seq.val[i]

\* C7: the labels of the headings at levels 0,1,1,2,0,1, and what every
\* construction of a numbered heading reads and increments.
C7_Numbering == [](C7_LabelsOfPrefix) /\ [][C7_Step]_vars

C7_Witness ==
    /\ Len(story[1]) = 6
    /\ \A i \in 1..6 : story[1][i].level = Levels6[i] /\ story[1][i].label = Labels6[i]

FirstNumbered0(st) ==
    LET S == {k \in 1..Len(st) :
                st[k].kind = "Heading" /\ st[k].numbered /\ st[k].level = 0}
    IN IF S = {} THEN 0 ELSE CHOOSE k \in S : \A j \in S : k <= j

\* C8: in the content list multiBuild is called on, the first numbered
\* level-0 heading is labelled 1, whatever headings were constructed for other
\* documents and whatever builds ran before.
C8_FirstHeadingIsOne ==
    (cur # 0 /\ FirstNumbered0(story[cur]) # 0)
    => story[cur][FirstNumbered0(story[cur])].label = <<1>>

\* The positions of the headings of st that ask for `flag`, in order.
RECURSIVE HeadingsWith(_, _, _)
HeadingsWith(st, k, flag) ==
    IF k > Len(st) THEN <<>>
    ELSE (IF st[k].kind = "Heading" /\ st[k][flag] THEN <<k>> ELSE <<>>)
         \o HeadingsWith(st, k + 1, flag)

BreaksUpTo(st, k) == Cardinality({j \in 1..(k - 1) : st[j].kind = "PageBreak"})

\* C9: after a layout pass, the TOCEntry notifications are those of the
\* headings with add_to_toc, one each and in placement order, each carrying
\* the heading's level, rendered text, page of placement and bookmark name;
\* the outline entries are those of the headings with add_to_outline, at the
\* heading's level; the pages never decrease; and headings at levels 0,1,0
\* constructed on a fresh sequencer bring the entries 1, 1.1, 2.
C9_EntriesOfPass ==
    (cur # 0 /\ passes >= 1) =>
        LET st == story[cur]
            T == HeadingsWith(st, 1, "add_to_toc")
            O == HeadingsWith(st, 1, "add_to_outline")
        IN /\ Len(notified) = Len(T)
           /\ \A i \in 1..Len(T) :
                /\ notified[i].level = st[T[i]].level
                /\ notified[i].text = [label |-> st[T[i]].label, name |-> st[T[i]].name]
                /\ notified[i].page = 1 + BreaksUpTo(st, T[i])
                /\ notified[i].key = st[T[i]].bookmark_name
           /\ \A i, j \in 1..Len(notified) :
                i < j => notified[i].page <= notified[j].page
           /\ Len(outline) = Len(O)
           /\ \A i \in 1..Len(O) :
                /\ outline[i].level = st[O[i]].level
                /\ outline[i].text = [label |-> st[O[i]].label, name |-> st[O[i]].name]
           /\ (/\ Len(st) = 3
               /\ \A k \in 1..3 : /\ st[k].kind = "Heading"
                                  /\ st[k].numbered /\ st[k].add_to_toc
                                  /\ st[k].level = <<0, 1, 0>>[k])
              => /\ Len(notified) = 3
                 /\ \A k \in 1..3 : notified[k].level = <<0, 1, 0>>[k]
                 /\ notified[1].text.label = <<1>>
                 /\ notified[2].text.label = <<1, 1>>
                 /\ notified[3].text.label = <<2>>

C9_Witness ==
    /\ pc = "built" /\ passes = 2 /\ Len(story[cur]) = 3
    /\ story[cur][1].kind = "Heading" /\ story[cur][1].add_to_toc
    /\ story[cur][2].kind = "PageBreak"
    /\ story[cur][3].kind = "Heading" /\ story[cur][3].add_to_toc
    /\ ~story[cur][3].add_to_outline
    /\ Len(notified) = 2 /\ notified[2].page = 2 /\ Len(outline) = 1

\* C10: two headings have the same bookmark name exactly when their rendered
\* text is the same; headings rendered "1 Intro" and "2 Intro" have different
\* bookmark names.
C10_BookmarkOfRenderedText ==
    \A j, k \in 1..Len(story[1]) :
        (story[1][j].kind = "Heading" /\ story[1][k].kind = "Heading")
        => ((story[1][j].bookmark_name = story[1][k].bookmark_name)
            <=> (getPlainText(story[1][j]) = getPlainText(story[1][k])))

\* How often the argument x occurs in the sequence a.
times(a, x) == Cardinality({j \in 1..Len(a) : a[j] = x})

\* C11 as claimed: every deferred edit queued in a pass has been applied, once,
\* when the next pass starts and when the build has ended, returning or
\* raising.
C11_EveryEditApplied ==
    (cur # 0 /\ pc \in {"pass", "done", "failed"})
    => /\ mbe = <<>>
       /\ \A i \in 1..Len(queued) : times(applied, queued[i]) = 1

\* C11, amended: no edit is applied during the pass that queues it; the
\* edits queued in a pass after which the loop goes on, and those queued by
\* them, have all been applied, each once, when the next pass starts; in
\* between every one of them is either applied once or still in the queue; the
\* edits queued in the last pass of a build, the one that ends it in Done or
\* raises the IndexError, are never applied.
C11_AppliedBeforeNextPass ==
    /\ \A i, j \in 1..Len(queued) : queued[i] = queued[j] => i = j
    /\ pc = "built" => (applied = <<>> /\ args(mbe) = queued)
    /\ (cur # 0 /\ pc = "pass") =>
          /\ mbe = <<>>
          /\ Len(applied) = Len(queued)
          /\ \A i \in 1..Len(queued) : times(applied, queued[i]) = 1
    /\ pc = "edits" =>
          \A i \in 1..Len(queued) :
              times(applied, queued[i]) + times(args(mbe), queued[i]) = 1
    /\ pc \in {"done", "failed"} => (applied = <<>> /\ args(mbe) = queued)

C11_Witness ==
    /\ pc = "done" /\ passes = 3 /\ Len(queued) = MaxQueued /\ applied = <<>>
    /\ Len(mbe) = MaxQueued

C11_WitnessApplied ==
    /\ pc = "pass" /\ passes = 2 /\ Len(queued) = 2 * MaxQueued
    /\ Len(applied) = 2 * MaxQueued

\* C12: the queue of deferred edits is empty whenever a pass starts, and
\* the edits are applied in the order of their queueing, each at most once,
\* those queued by an edit during the draining after those queued before.
C12_FifoDrain ==
    /\ pc = "pass" => mbe = <<>>
    /\ cur # 0 =>
          /\ Len(applied) <= Len(queued)
          /\ applied = SubSeq(queued, 1, Len(applied))
          /\ \A i, j \in 1..Len(queued) : queued[i] = queued[j] => i = j
          /\ args(mbe) = SubSeq(queued, Len(applied) + 1, Len(queued))

C12_Witness ==
    /\ pc = "pass" /\ passes = 1 /\ applied = <<1, 2, 3, 4>>

\* C13 as claimed: on a freshly constructed template, the pass after the one
\* that fixed total_pages is the last and ends the build in Done, whatever
\* the indexing flowables answer in it.
C13_OneMorePassThenDone ==
    [][(pc = "built" /\ FirstCall(cur) /\ total_pages[cur] # None)
       => pc' = "done"]_vars

C13_ExtraPassSatisfied ==
    (/\ pc = "built" /\ FirstCall(cur) /\ total_pages[cur] # None
     /\ ~HasKind(cur, "Flaky"))
    => allSatisfied(cur, TRUE)

C13_Step ==
    /\ (pc = "built" /\ total_pages[cur] # None) =>
          /\ allSatisfied(cur, FALSE) => pc' = "done"
          /\ ~allSatisfied(cur, TRUE) =>
                /\ pc' # "done"
                /\ pc' = "failed" <=> passes > max_passes
          /\ passes' = passes
          /\ total_pages' = total_pages
    /\ (pc = "built" /\ total_pages[cur] = None) =>
          /\ pc' # "done"
          /\ total_pages'[cur] \in {None, page[cur]}
          /\ pc' = "failed" <=> passes > max_passes

\* C13, amended: the pass that fixes total_pages never ends the build in
\* Done; unless the ceiling is exceeded in it, one more pass runs. Once
\* total_pages is fixed, a pass in which every indexing flowable is satisfied
\* ends the build in Done, and a pass in which one is not lets the loop go on,
\* up to the ceiling; the pass after the fixing one is the last when the
\* flowables answer in it as they did (as a TableOfContents does on a freshly
\* constructed template).
C13_DoneAtNextSatisfiedPass == [](C13_ExtraPassSatisfied) /\ [][C13_Step]_vars

C13_Witness ==
    /\ pc = "built" /\ FirstCall(cur) /\ total_pages[cur] # None /\ passes = 3
    /\ HasKind(cur, "Flaky") /\ HasKind(cur, "Heading")

\* C14: when a build ends in Done, total_pages is the page count of its
\* last pass, the pages that are saved.
C14_TotalIsFinalPageCount == pc = "done" => total_pages[cur] = page[cur]

\* C15: when a multiBuild call starts, the first call on a template or a
\* later one, and during its first pass (no pass of the call has been
\* satisfied before it), total_pages is None.
C15_UnknownAtInit ==
    (cur # 0 /\ (\/ pc = "pass" /\ passes = 0
                 \/ pc = "built" /\ passes = 1))
    => total_pages[cur] = None

\* The rank of a call in a turn of the loop.
rank(e) ==
    CASE e.ev = "beforeBuild" -> 1
      [] e.ev \in {"afterFlowable", "handle_afterFlowable"} -> 2
      [] e.ev = "afterBuild" -> 3
      [] e.ev = "allSatisfied" -> 4

\* The number of calls name(item) among the events.
count(name, item) ==
    Cardinality({i \in 1..Len(events) :
                    events[i].ev = name /\ events[i].item = item})

\* C16: in every turn of the loop, beforeBuild is called once on every
\* indexing flowable, in the order of the content list, then the layout
\* places every flowable once, in that order, then afterBuild is called once
\* on every indexing flowable, in that order, and only then is satisfaction
\* evaluated, once; a pass starts after the evaluation of the one before.
C16_EventsInOrder ==
    (cur # 0 /\ passes >= 1) =>
        LET idx == indexingFlowables[cur]
            st == story[cur]
        IN /\ \A i, j \in 1..Len(events) :
                i < j => /\ rank(events[i]) <= rank(events[j])
                         /\ events[i].ev = events[j].ev
                               => events[i].item < events[j].item
                         /\ (rank(events[i]) = 2 /\ rank(events[j]) = 2)
                               => events[i].item <= events[j].item
           /\ \A k \in 1..Len(st) :
                /\ count("beforeBuild", k) = (IF isIndexing(st[k]) THEN 1 ELSE 0)
                /\ count("afterBuild", k) = (IF isIndexing(st[k]) THEN 1 ELSE 0)
                /\ count("afterFlowable", k) = 1
           /\ \A i \in 1..Len(events) :
                events[i].ev # "allSatisfied" => events[i].item \in 1..Len(st)
           /\ Len(idx) = Cardinality({k \in 1..Len(st) : isIndexing(st[k])})
           /\ count("allSatisfied", 0) = (IF pc = "built" THEN 0 ELSE 1)

C16_Witness ==
    /\ pc = "pass" /\ passes = 2 /\ Len(events) = 6
    /\ HasKind(cur, "Heading") /\ HasKind(cur, "TOC")
    /\ events[Len(events)].ev = "allSatisfied"

\* C17: right after a numbered heading at level L is constructed, every
\* counter hj that exists, j > L, is at 0.
C17_DescendantsReset ==
    Len(story[1]) >= 1 =>
        LET L == story[1][Len(story[1])].level
        IN \A j \in Levels : j > L => seq.val[j] \in {Absent, 0}

\* C18: in a layout pass every placed flowable is reported once; the handler
\* of a flowable that has a callable handle_afterFlowable (a Heading) is
\* called once, and no handler is called for a flowable without the attribute
\* or whose attribute is not callable: the pass goes on, and such a flowable
\* brings no TOC entry and no outline entry.
C18_HookOptional ==
    (cur # 0 /\ passes >= 1) =>
        LET st == story[cur]
        IN /\ \A k \in 1..Len(st) :
                /\ count("afterFlowable", k) = 1
                /\ count("handle_afterFlowable", k) =
                      (IF st[k].kind = "Heading" THEN 1 ELSE 0)
           /\ Len(notified) = Len(HeadingsWith(st, 1, "add_to_toc"))
           /\ Len(outline) = Len(HeadingsWith(st, 1, "add_to_outline"))
           /\ \A i \in 1..Len(notified) :
                \E k \in 1..Len(st) :
                    st[k].kind = "Heading" /\ notified[i].key = st[k].bookmark_name

C18_Witness ==
    /\ pc = "done" /\ Len(story[cur]) = 2
    /\ HasKind(cur, "Marked") /\ HasKind(cur, "Heading")
    /\ Len(events) = 4 /\ Len(notified) = 1

\* The lists a and b hold the same flowables in the same order (a table of
\* contents is the same flowable whatever entries it holds).
sameItems(a, b) ==
    /\ Len(a) = Len(b)
    /\ \A k \in 1..Len(a) :
          /\ a[k].kind = b[k].kind
          /\ a[k].kind # "TOC" => a[k] = b[k]

C19_FullContent ==
    (cur # 0 /\ passes >= 1) =>
        Cardinality({i \in 1..Len(events) : events[i].ev = "afterFlowable"})
            = Len(story[cur])

C19_Step == cur # 0 => sameItems(story[cur], story'[cur])

\* C19: no step of a running multiBuild, ending in Done or in the
\* IndexError, changes the flowables of the caller's content list or their
\* order, and every layout pass places the whole content list.
C19_StoryKept == [](C19_FullContent) /\ [][C19_Step]_vars

C19_Witness ==
    /\ pc = "failed" /\ passes = 3 /\ Len(story[cur]) = MaxItems
    /\ HasKind(cur, "TOC") /\ HasKind(cur, "Flaky")
    /\ ~FirstCall(cur)

====
